---- MODULE Spec2Model ----
(***************************************************************************)
(* Model of splitter.py: a tool that splits one concatenated text into     *)
(* files below an output directory.                                        *)
(*                                                                         *)
(* Text is a sequence of tokens.  Each token stands for a fixed string of  *)
(* the input: "HDR" is the literal "===== FILE:", "END" is the literal     *)
(* "=====", "SP" a space, "NL" a newline, "SL" a slash, "UP" the name      *)
(* "..", "NUL" the character U+0000; every other token is a plain name     *)
(* without whitespace, slash or "=".  Over texts built from these tokens   *)
(* the regular expression of parse_concatenated_file matches a token       *)
(* sequence exactly when it matches the string the tokens spell.           *)
(***************************************************************************)
EXTENDS Integers, Sequences, FiniteSets, TLC

\* ---------------------------------------------------------------- bounds

\* Largest number of blocks an input text is built from.
MaxBlocks == 2

\* ------------------------------------------------------- sequence helpers

Front(s) == SubSeq(s, 1, Len(s) - 1)

Last(s) == s[Len(s)]

IsPrefix(p, s) == Len(p) <= Len(s) /\ SubSeq(s, 1, Len(p)) = p

SetMax(S) == CHOOSE x \in S : \A y \in S : y <= x

SetMin(S) == CHOOSE x \in S : \A y \in S : x <= y

\* ------------------------------------------------------ character classes

\* \s of the regular expression, and the characters str.strip() removes.
IsSpace(t) == t \in {"SP", "NL"}

\* "." of the regular expression: anything but a newline.
IsDot(t) == t # "NL"

\* Length of the run of whitespace of s that starts at position i.
RECURSIVE WsRun(_, _)
WsRun(s, i) == IF i <= Len(s) /\ IsSpace(s[i]) THEN 1 + WsRun(s, i + 1) ELSE 0

\* Length of the run of non-newline characters of s that starts at i.
RECURSIVE DotRun(_, _)
DotRun(s, i) == IF i <= Len(s) /\ IsDot(s[i]) THEN 1 + DotRun(s, i + 1) ELSE 0

\* str.strip(): drop leading and trailing whitespace.
RECURSIVE StripLeft(_)
StripLeft(s) == IF s # <<>> /\ IsSpace(s[1]) THEN StripLeft(Tail(s)) ELSE s

RECURSIVE StripRight(_)
StripRight(s) == IF s # <<>> /\ IsSpace(Last(s)) THEN StripRight(Front(s)) ELSE s

Strip(s) == StripRight(StripLeft(s))

\* ------------------------------------------------ parse_concatenated_file

\* "^" under re.MULTILINE: the start of the text or just after a newline.
AtLineStart(s, i) == i = 1 \/ s[i - 1] = "NL"

\* "$" under re.MULTILINE: the end of the text or just before a newline.
\* i is the position after the last matched character.
AtLineEnd(s, i) == i = Len(s) + 1 \/ s[i] = "NL"

\* The lengths k the lazy group (.*?) starting at g may take so that the
\* rest "\s*=====$" matches: the whitespace run after the group must be
\* followed by END and the end of a line.
GroupEnds(s, g) ==
    { k \in 0..DotRun(s, g) :
        LET e == g + k + WsRun(s, g + k)
        IN  e <= Len(s) /\ s[e] = "END" /\ AtLineEnd(s, e + 1) }

\* The match of the pattern at position i, or none.  The first \s* is
\* greedy (the longest run that still lets the rest match), the group is
\* lazy (the shortest one), the second \s* is the whole run before END.
MatchAt(s, i) ==
    IF ~(i <= Len(s) /\ AtLineStart(s, i) /\ s[i] = "HDR")
    THEN [found |-> FALSE]
    ELSE LET js == { j \in 0..WsRun(s, i + 1) : GroupEnds(s, i + 1 + j) # {} }
         IN  IF js = {}
             THEN [found |-> FALSE]
             ELSE LET g == i + 1 + SetMax(js)
                      k == SetMin(GroupEnds(s, g))
                      e == g + k + WsRun(s, g + k)
                  IN  [found |-> TRUE, start |-> i, end |-> e + 1,
                       group |-> SubSeq(s, g, g + k - 1)]

\* pattern.finditer(content): the non-overlapping matches, left to right.
RECURSIVE FindIter(_, _)
FindIter(s, pos) ==
    IF pos > Len(s)
    THEN <<>>
    ELSE LET m == MatchAt(s, pos)
         IN  IF m.found
             THEN <<m>> \o FindIter(s, m.end)
             ELSE FindIter(s, pos + 1)

\* "if file_content.startswith('\n'): file_content = file_content[1:]"
DropLeadingNewline(c) == IF c # <<>> /\ c[1] = "NL" THEN Tail(c) ELSE c

\* The (file_path, file_content) pairs, in the order of the matches.
parse_concatenated_file(content) ==
    LET matches == FindIter(content, 1)
    IN  [ i \in 1..Len(matches) |->
            LET start == matches[i].end
                end   == IF i + 1 <= Len(matches)
                         THEN matches[i + 1].start
                         ELSE Len(content) + 1
            IN  [path    |-> Strip(matches[i].group),
                 content |-> DropLeadingNewline(SubSeq(content, start, end - 1))] ]

\* ------------------------------------------------------------ path names

\* A path is a token sequence; its components are the token sequences
\* between slashes (empty ones included, as in "a//b", "/e" and "").
RECURSIVE SplitSL(_)
SplitSL(p) ==
    IF \A i \in 1..Len(p) : p[i] # "SL"
    THEN <<p>>
    ELSE LET i == SetMin({ j \in 1..Len(p) : p[j] = "SL" })
         IN  <<SubSeq(p, 1, i - 1)>> \o SplitSL(SubSeq(p, i + 1, Len(p)))

IsAbs(p) == p # <<>> /\ p[1] = "SL"

Up == <<"UP">>

\* The components that name something: the kernel and pathlib skip the
\* empty ones.
Clean(comps) == SelectSeq(comps, LAMBDA c : c # <<>>)

Parent(dir) == IF dir = <<>> THEN <<>> ELSE Front(dir)

\* The output directory the operator names, /p/out, as absolute components.
OutputDir == << <<"p">>, <<"out">> >>

\* Where every symbolic link of the model points: /p, the parent of the
\* output directory.
LinkTarget == << <<"p">> >>

\* os.path.join(output_dir, file_path), as components from the root: an
\* absolute file_path replaces output_dir.
JoinPath(dir, p) == IF IsAbs(p) THEN SplitSL(p) ELSE dir \o SplitSL(p)

\* -------------------------------------------------------------- filesystem
\* fs.dirs: the directories (absolute, resolved), fs.files: the regular
\* files with their contents, fs.links: the symbolic links.

\* The kernel's walk along directory components from cur: ".." is the
\* parent of the directory reached, a link is followed, and a component
\* that is missing or no directory is an error.
RECURSIVE WalkDir(_, _, _)
WalkDir(fs, cur, rest) ==
    IF rest = <<>>
    THEN [ok |-> TRUE, at |-> cur, err |-> "none"]
    ELSE LET c == Head(rest)
             nxt == Append(cur, c)
         IN  IF c = Up THEN WalkDir(fs, Parent(cur), Tail(rest))
             ELSE IF nxt \in fs.links THEN WalkDir(fs, LinkTarget, Tail(rest))
             ELSE IF nxt \in fs.dirs THEN WalkDir(fs, nxt, Tail(rest))
             ELSE IF nxt \in DOMAIN fs.files
                  THEN [ok |-> FALSE, at |-> cur, err |-> "NotADirectoryError"]
                  ELSE [ok |-> FALSE, at |-> cur, err |-> "FileNotFoundError"]

\* os.path.exists: a directory, or a regular file in a directory.
Exists(fs, comps) ==
    LET cs == Clean(comps)
    IN  \/ WalkDir(fs, <<>>, cs).ok
        \/ /\ cs # <<>>
           /\ Last(comps) # <<>>
           /\ LET d == WalkDir(fs, <<>>, Front(cs))
              IN  d.ok /\ Append(d.at, Last(cs)) \in DOMAIN fs.files

\* Path.resolve() (os.path.realpath, not strict): ".." drops the last
\* component of the path resolved so far, a link is followed, and a
\* component that does not exist is kept as it is written.
RECURSIVE RealPath(_, _, _)
RealPath(fs, cur, rest) ==
    IF rest = <<>>
    THEN cur
    ELSE LET c == Head(rest)
             nxt == Append(cur, c)
         IN  IF c = <<>> THEN RealPath(fs, cur, Tail(rest))
             ELSE IF c = Up THEN RealPath(fs, Parent(cur), Tail(rest))
             ELSE IF nxt \in fs.links THEN RealPath(fs, LinkTarget, Tail(rest))
             ELSE RealPath(fs, nxt, Tail(rest))

\* resolve() raises ValueError("embedded null byte") on a path that holds
\* the character U+0000.
HasNul(p) == \E i \in 1..Len(p) : p[i] = "NUL"

\* is_safe_path(base_dir, file_path): "true", "false", or "raise" when
\* resolve(), which stands outside the try block, raises.
is_safe_path(fs, base_dir, file_path) ==
    LET base   == RealPath(fs, <<>>, base_dir)
        target == RealPath(fs, <<>>, JoinPath(base, file_path))
    IN  IF HasNul(file_path) THEN "raise"
        ELSE IF IsPrefix(base, target) THEN "true"
        ELSE "false"

\* os.mkdir(name) inside makedirs, with its "except OSError: if not
\* exist_ok or not path.isdir(name): raise".  cs is not empty.
Mkdir(fs, cs) ==
    LET d == WalkDir(fs, <<>>, Front(cs))
        t == Append(d.at, Last(cs))
    IN  IF ~d.ok THEN [err |-> d.err, dirs |-> fs.dirs]
        ELSE IF Last(cs) = Up \/ t \in fs.dirs \/ t \in fs.links
             THEN [err |-> "none", dirs |-> fs.dirs]
        ELSE IF t \in DOMAIN fs.files
             THEN [err |-> "FileExistsError", dirs |-> fs.dirs]
        ELSE [err |-> "none", dirs |-> fs.dirs \cup {t}]

\* os.makedirs(name, exist_ok=True): make the head first when it does not
\* exist (a FileExistsError from there is swallowed), then the leaf.
RECURSIVE MakeDirs(_, _)
MakeDirs(fs, cs) ==
    IF cs = <<>>
    THEN [err |-> "none", dirs |-> fs.dirs]
    ELSE LET up == IF ~Exists(fs, Front(cs))
                   THEN MakeDirs(fs, Front(cs))
                   ELSE [err |-> "none", dirs |-> fs.dirs]
         IN  IF up.err \notin {"none", "FileExistsError"}
             THEN up
             ELSE Mkdir([fs EXCEPT !.dirs = up.dirs], cs)

\* open(full_path, "w"): the file the name leads to, or the error.
OpenForWrite(fs, comps) ==
    LET d == WalkDir(fs, <<>>, Clean(Front(comps)))
        t == Append(d.at, Last(comps))
    IN  IF ~d.ok THEN [err |-> d.err, at |-> <<>>]
        ELSE IF Last(comps) \in {<<>>, Up} \/ t \in fs.dirs \/ t \in fs.links
             THEN [err |-> "IsADirectoryError", at |-> <<>>]
        ELSE [err |-> "none", at |-> t]

\* ------------------------------------------------------------------ inputs

Marker(path) == <<"HDR", "SP">> \o path \o <<"SP", "END", "NL">>

\* The pieces input texts are built from.
Blocks ==
    { Marker(<<"a">>) \o <<"h", "NL">>,                     \* a: "h\n"
      Marker(<<"a">>) \o <<"NL", "w", "SP", "NL">>,         \* a: "\nw \n"
      Marker(<<"b", "SL", "c">>) \o <<"w">>,                \* b/c, no final newline
      Marker(<<"UP", "SL", "s">>) \o <<"h", "NL">>,         \* ../s
      Marker(<<"UP", "SL", "x", "SL", "UP", "SL", "out", "SL", "a">>)
          \o <<"w", "NL">>,                                 \* ../x/../out/a
      Marker(<<"c", "SL", "UP", "SL", "a">>) \o <<"NL">>,   \* c/../a: "\n"
      Marker(<<"SL", "e">>) \o <<"h", "NL">>,               \* /e
      Marker(<<"NUL">>) \o <<"h", "NL">>,                   \* a U+0000 character
      <<"HDR", "SP", "END", "NL", "h", "NL">>,              \* the empty path
      <<"HDR", "SP", "a", "NL", "END", "NL", "h", "NL">>,   \* a marker over two lines
      <<"HDR", "NL">>,                                      \* a marker cut short
      <<"h", "NL">> }                                       \* plain text

RECURSIVE Concat(_)
Concat(bs) == IF bs = <<>> THEN <<>> ELSE Head(bs) \o Concat(Tail(bs))

Texts == { Concat(bs) : bs \in UNION { [1..n -> Blocks] : n \in 0..MaxBlocks } }

NoFiles == [p \in {} |-> <<>>]

BaseDirs == { <<>>, << <<"p">> >>, OutputDir }

\* The filesystems a run may start in: an empty output directory; one that
\* holds the files a and b; one where b is a link out of the directory.
InitialFs ==
    { [dirs |-> BaseDirs, files |-> NoFiles, links |-> {}],
      [dirs |-> BaseDirs,
       files |-> [p \in {OutputDir \o << <<"a">> >>, OutputDir \o << <<"b">> >>}
                     |-> <<"old">>],
       links |-> {}],
      [dirs |-> BaseDirs, files |-> NoFiles, links |-> {OutputDir \o << <<"b">> >>}] }

\* How the tool is invoked: the length of sys.argv, whether the output
\* directory is a directory, and how reading the input file ends.
Invocations ==
    { [argc |-> 1, isdir |-> TRUE,  read |-> "ok"],
      [argc |-> 2, isdir |-> TRUE,  read |-> "FileNotFoundError"],
      [argc |-> 3, isdir |-> FALSE, read |-> "ok"],
      [argc |-> 3, isdir |-> TRUE,  read |-> "FileNotFoundError"],
      [argc |-> 3, isdir |-> TRUE,  read |-> "UnicodeDecodeError"],
      [argc |-> 3, isdir |-> TRUE,  read |-> "ok"] }

\* What input() may return, as characters.
Replies ==
    { <<>>, <<"y">>, <<"n", "SP", "o">>, <<"n">>, <<"SP", "N", "O", "SP">> }

\* How input() may be interrupted.
Interrupts == { "KeyboardInterrupt", "EOFError" }

\* Where an I/O failure may strike in one round of write_files.
Faults == { "none", "makedirs", "open", "write" }

\* ------------------------------------------------------------------- state

VARIABLES
    content,        \* the text of the input file
    fs,             \* the filesystem
    pc,             \* "start", "prompt", "write" or "exit"
    argv,           \* the invocation, once main has looked at it
    files,          \* main's files: the parsed sections
    listing,        \* the status list_files_status printed for each section
    reply,          \* what input() did: [kind, text]
    idx,            \* write_files: the section the loop is at
    written_files,  \* write_files: the full paths written so far
    report,         \* write_files: the error report, once printed
    exitCode,       \* the exit status, -1 while the run lasts
    uncaught,       \* the exception that left main, or "none"
    message,        \* the last thing the tool printed
    calls,          \* which steps of main have run
    changes         \* what the tool has done to the filesystem

vars == <<content, fs, pc, argv, files, listing, reply, idx, written_files,
          report, exitCode, uncaught, message, calls, changes>>

NoCalls == [parsed |-> FALSE, listed |-> FALSE, prompts |-> 0, writer |-> FALSE]

Init ==
    /\ content \in Texts
    /\ fs \in InitialFs
    /\ pc = "start"
    /\ argv = [argc |-> 0, isdir |-> FALSE, read |-> "none"]
    /\ files = <<>>
    /\ listing = <<>>
    /\ reply = [kind |-> "none", text |-> <<>>]
    /\ idx = 0
    /\ written_files = <<>>
    /\ report = [shown |-> FALSE, paths |-> <<>>]
    /\ exitCode = -1
    /\ uncaught = "none"
    /\ message = "none"
    /\ calls = NoCalls
    /\ changes = {}

\* -------------------------------------------------------- list_files_status

\* The status of one section: UNSAFE, EXISTING or NEW; RAISE when
\* is_safe_path raises.
StatusOf(f, path) ==
    LET safe == is_safe_path(f, OutputDir, path)
    IN  IF safe = "raise" THEN "RAISE"
        ELSE IF safe = "false" THEN "UNSAFE"
        ELSE IF Exists(f, JoinPath(OutputDir, path)) THEN "EXISTING"
        ELSE "NEW"

\* A faulty has_unsafe: assigned in every round, so that only the last
\* section decides it.
HasUnsafeLastOnly(statuses) ==
    statuses # <<>> /\ statuses[Len(statuses)] = "UNSAFE"

\* has_unsafe after the loop: set once a section is UNSAFE, never reset.
HasUnsafe(statuses) == \E i \in 1..Len(statuses) : statuses[i] = "UNSAFE"

\* list_files_status(files, output_dir): the statuses printed, the flag
\* returned, and whether the loop was left by an exception.
list_files_status(f, secs) ==
    LET all == [i \in 1..Len(secs) |-> StatusOf(f, secs[i].path)]
        bad == { i \in 1..Len(secs) : all[i] = "RAISE" }
    IN  IF bad = {}
        THEN [raised |-> FALSE, printed |-> all, has_unsafe |-> HasUnsafe(all)]
        ELSE [raised |-> TRUE, printed |-> SubSeq(all, 1, SetMin(bad) - 1),
              has_unsafe |-> FALSE]

\* --------------------------------------------------------------------- main

\* "if len(sys.argv) < 2"
UsageError(a) == a.argc < 2

\* A faulty main that does not look at the output directory.
MissingOutputDirUnchecked(a) == FALSE

\* "if not os.path.isdir(output_dir)"
MissingOutputDir(a) == ~a.isdir

\* The open/read of the input file raised.
ReadError(a) == a.read # "ok"

\* The error main reports before it parses anything, or "none".
StartError(a) ==
    IF UsageError(a) THEN "usage"
    ELSE IF MissingOutputDir(a) THEN "no-output-dir"
    ELSE IF a.read = "FileNotFoundError" THEN "input-not-found"
    ELSE IF ReadError(a) THEN "read-error"
    ELSE "none"

\* print(msg); sys.exit(code)
Exit(msg, code) ==
    /\ pc' = "exit"
    /\ message' = msg
    /\ exitCode' = code

\* main up to the prompt: the arguments, the output directory, the input
\* file, the parse, the listing and the gate on unsafe paths.
Start ==
    /\ pc = "start"
    /\ \E a \in Invocations :
         /\ argv' = a
         /\ IF StartError(a) # "none"
            THEN /\ Exit(StartError(a), 1)
                 /\ UNCHANGED <<files, listing, calls, uncaught>>
            ELSE LET secs == parse_concatenated_file(content)
                     st   == list_files_status(fs, secs)
                 IN  /\ files' = secs
                     /\ IF secs = <<>>
                        THEN /\ Exit("no-sections", 0)
                             /\ calls' = [calls EXCEPT !.parsed = TRUE]
                             /\ UNCHANGED <<listing, uncaught>>
                        ELSE /\ calls' = [calls EXCEPT !.parsed = TRUE, !.listed = TRUE]
                             /\ listing' = st.printed
                             /\ IF st.raised
                                THEN /\ Exit("traceback", 1)
                                     /\ uncaught' = "ValueError"
                                ELSE /\ uncaught' = uncaught
                                     /\ IF st.has_unsafe
                                        THEN Exit("unsafe-cancelled", 1)
                                        ELSE /\ pc' = "prompt"
                                             /\ message' = "listing"
                                             /\ exitCode' = exitCode
    /\ UNCHANGED <<content, fs, reply, idx, written_files, report, changes>>

\* str.lower() on the characters of a reply.
LowerChar(c) == IF c = "N" THEN "n" ELSE IF c = "O" THEN "o" ELSE c

Lower(s) == [i \in 1..Len(s) |-> LowerChar(s[i])]

\* A faulty test that compares the reply as typed.
DeclinedAsTyped(text) == text \in { <<"n">>, <<"n", "o">> }

\* A faulty test that takes every reply but "" and "y" for a decline.
DeclinedUnlessYes(text) == Lower(Strip(text)) \notin { <<>>, <<"y">> }

\* "if proceed in ("n", "no")", proceed being the reply stripped and
\* lowercased.
Declined(text) == Lower(Strip(text)) \in { <<"n">>, <<"n", "o">> }

\* main from the prompt on: the reply, and on accept the start of
\* write_files (written_files = []).
Prompt ==
    /\ pc = "prompt"
    /\ \/ \E k \in Interrupts :
             /\ reply' = [kind |-> k, text |-> <<>>]
             /\ calls' = [calls EXCEPT !.prompts = @ + 1]
             /\ Exit("cancelled", 0)
             /\ UNCHANGED <<idx, written_files>>
       \/ \E t \in Replies :
             /\ reply' = [kind |-> "text", text |-> t]
             /\ IF Declined(t)
                THEN /\ Exit("cancelled", 0)
                     /\ calls' = [calls EXCEPT !.prompts = @ + 1]
                     /\ UNCHANGED <<idx, written_files>>
                ELSE /\ pc' = "write"
                     /\ calls' = [calls EXCEPT !.prompts = @ + 1, !.writer = TRUE]
                     /\ idx' = 1
                     /\ written_files' = <<>>
                     /\ UNCHANGED <<message, exitCode>>
    /\ UNCHANGED <<content, fs, argv, files, listing, report, uncaught, changes>>

\* -------------------------------------------------------------- write_files

\* A faulty write that leaves a file that exists as it is.
PutFileKeepExisting(f, at, c) == [f EXCEPT !.files = f.files @@ (at :> c)]

\* f.write(content) into the file opened at `at`.
PutFile(f, at, c) == [f EXCEPT !.files = (at :> c) @@ f.files]

\* One round of the loop of write_files on section sec: the safety check,
\* makedirs, open and write.  fault is where an I/O failure strikes, n how
\* much of the content reached the file when the write fails.  dir_path,
\* the directory part of output_dir joined with the path, is never the
\* empty string, so makedirs is called in every round.
WriteOne(f, sec, fault, n) ==
    LET full == JoinPath(OutputDir, sec.path)
        md   == MakeDirs(f, Clean(Front(full)))
        f1   == [f EXCEPT !.dirs = md.dirs]
        made == { [op |-> "mkdir", at |-> d] : d \in md.dirs \ f.dirs }
        op   == OpenForWrite(f1, full)
        all  == made \cup { [op |-> "write", at |-> op.at] }
    IN  IF is_safe_path(f, OutputDir, sec.path) # "true"
        THEN [err |-> "ValueError", fs |-> f, did |-> {}]
        ELSE IF fault = "makedirs"
        THEN [err |-> "OSError", fs |-> f, did |-> {}]
        ELSE IF md.err # "none"
        THEN [err |-> md.err, fs |-> f1, did |-> made]
        ELSE IF fault = "open"
        THEN [err |-> "OSError", fs |-> f1, did |-> made]
        ELSE IF op.err # "none"
        THEN [err |-> op.err, fs |-> f1, did |-> made]
        ELSE IF fault = "write"
        THEN [err |-> "OSError", did |-> all,
              fs |-> PutFile(f1, op.at, SubSeq(sec.content, 1, n))]
        ELSE [err |-> "none", did |-> all,
              fs |-> PutFile(f1, op.at, sec.content)]

\* A faulty report: full joins written_files before it is written.
ReportOnErrorEarly(ws, full) == Append(ws, full)

\* The list under "Successfully written files:" when the round on full
\* raised: written_files, which full has not joined yet.
ReportOnError(ws, full) == ws

\* One round of the loop of write_files, and its except branch.
WriteFile ==
    /\ pc = "write"
    /\ idx <= Len(files)
    /\ \E fault \in Faults, n \in 0..Len(files[idx].content) :
         /\ fault # "write" => n = 0
         /\ LET full == JoinPath(OutputDir, files[idx].path)
                r    == WriteOne(fs, files[idx], fault, n)
            IN  /\ fs' = r.fs
                /\ changes' = changes \cup
                       { [op |-> c.op, at |-> c.at, sec |-> idx] : c \in r.did }
                /\ IF r.err = "none"
                   THEN /\ written_files' = Append(written_files, full)
                        /\ idx' = idx + 1
                        /\ message' = "written"
                        /\ UNCHANGED <<pc, exitCode, report>>
                   ELSE /\ report' = [shown |-> TRUE,
                                      paths |-> ReportOnError(written_files, full)]
                        /\ Exit("write-error", 1)
                        /\ UNCHANGED <<idx, written_files>>
    /\ UNCHANGED <<content, argv, files, listing, reply, uncaught, calls>>

\* The loop of write_files is over: "All files written successfully.",
\* and main returns.
WriteDone ==
    /\ pc = "write"
    /\ idx > Len(files)
    /\ Exit("all-written", 0)
    /\ UNCHANGED <<content, fs, argv, files, listing, reply, idx, written_files,
                   report, uncaught, calls, changes>>

\* While main waits in input(), the filesystem is not the tool's alone:
\* another process makes b in the output directory a link that leaves it.
EnvLink ==
    /\ pc = "prompt"
    /\ LET b == OutputDir \o << <<"b">> >>
       IN  /\ b \notin fs.dirs \cup fs.links \cup DOMAIN fs.files
           /\ fs' = [fs EXCEPT !.links = @ \cup {b}]
    /\ UNCHANGED <<content, pc, argv, files, listing, reply, idx, written_files,
                   report, exitCode, uncaught, message, calls, changes>>

Next == Start \/ Prompt \/ WriteFile \/ WriteDone \/ EnvLink

Spec == Init /\ [][Next]_vars

\* ------------------------------------------------------------------ claims

\* The marker format as the specification words it: a line that is, as a
\* whole, "===== FILE: <path> =====".  The positions where such a line
\* starts.
MarkerLineStarts(s) ==
    { i \in 1..Len(s) :
        /\ AtLineStart(s, i)
        /\ DotRun(s, i) >= 2
        /\ s[i] = "HDR"
        /\ s[i + DotRun(s, i) - 1] = "END" }

RECURSIVE SortedSeq(_)
SortedSeq(S) ==
    IF S = {} THEN <<>> ELSE <<SetMin(S)>> \o SortedSeq(S \ {SetMin(S)})

\* The sections the specification asks for: one for each marker line, its
\* path the text between "===== FILE:" and "=====" trimmed, its content the
\* text up to the next marker line less one leading newline.
SectionsByLine(s) ==
    LET ms == SortedSeq(MarkerLineStarts(s))
    IN  [ i \in 1..Len(ms) |->
            LET after == ms[i] + DotRun(s, ms[i])
                next  == IF i < Len(ms) THEN ms[i + 1] ELSE Len(s) + 1
                raw   == SubSeq(s, after, next - 1)
            IN  [path    |-> Strip(SubSeq(s, ms[i] + 1, after - 2)),
                 content |-> IF raw # <<>> /\ raw[1] = "NL" THEN Tail(raw) ELSE raw] ]

\* The full path write_files prints for section i.
FullPath(i) == JoinPath(OutputDir, files[i].path)

\* The file the path of section i names in the filesystem as it is now.
FileOf(i) == OpenForWrite(fs, FullPath(i))

\* The tool has left the filesystem as it found it, and has neither
\* prompted nor entered write_files.
Untouched == changes = {} /\ calls.prompts = 0 /\ ~calls.writer

\* C1: when a section is listed UNSAFE (or the safety check raises), the
\* run is over with exit code 1, nothing has been written or created for
\* any section, and the prompt was never reached.
C1_UnsafeAbortsAll ==
    ((\E i \in 1..Len(listing) : listing[i] = "UNSAFE") \/ uncaught # "none")
        => pc = "exit" /\ exitCode = 1 /\ Untouched

\* C1 witness: an unsafe section after a safe one ended the run.
C1_Witness ==
    /\ pc = "exit"
    /\ Len(listing) = 2
    /\ listing[1] \in {"NEW", "EXISTING"}
    /\ listing[2] = "UNSAFE"

\* C2: a reply that is "n" or "no" once trimmed and lowercased, and an
\* interrupt of the prompt alike, end the run with exit code 0 without
\* write_files being called and without a change to the filesystem.
C2_DeclineWritesNothing ==
    (\/ reply.kind \in Interrupts
     \/ reply.kind = "text" /\ Lower(Strip(reply.text)) \in { <<"n">>, <<"n", "o">> })
        => pc = "exit" /\ exitCode = 0 /\ ~calls.writer /\ changes = {}
           /\ message = "cancelled"

\* C2 witness: the operator answered " NO ".
C2_Witness ==
    /\ reply = [kind |-> "text", text |-> <<"SP", "N", "O", "SP">>]
    /\ exitCode = 0

\* C3: an input without a marker line parses to no section, and the run
\* ends with exit code 0 without listing, prompting or writing.
C3_NoMarkerLineNoSection ==
    (calls.parsed /\ MarkerLineStarts(content) = {})
        => /\ files = <<>>
           /\ pc = "exit" /\ exitCode = 0
           /\ ~calls.listed /\ Untouched

\* C4: the parser yields one section for each well-formed marker line, in
\* order, with the marker's trimmed path and the text up to the next marker
\* less exactly one leading newline.
C4_SectionsFollowMarkerLines ==
    calls.parsed => files = SectionsByLine(content)

\* C4, for the inputs in which every line that starts with "===== FILE:"
\* is a marker line: there the parser yields the sections of C4.
C4_WhenMarkersAreWholeLines ==
    (calls.parsed /\ \A i \in 1..Len(content) :
         (AtLineStart(content, i) /\ content[i] = "HDR")
             => i \in MarkerLineStarts(content))
        => files = SectionsByLine(content)

\* The list write_files has to report when the round on section idx fails.
WrittenBefore == [i \in 1..(idx - 1) |-> FullPath(i)]

\* The files the run has created or changed.
FilesChanged == { c.at : c \in { d \in changes : d.op = "write" } }

\* The files of the sections before section idx.
FilesBefore == { c.at : c \in { d \in changes : d.op = "write" /\ d.sec < idx } }

\* What C5 and its amended form share: the run is over with exit code 1,
\* the report lists the sections before idx in order, each of them was
\* written and its file is still there, and nothing was done for a
\* section after idx.
C5_StopAndReport ==
    /\ pc = "exit" /\ exitCode = 1 /\ message = "write-error"
    /\ report.paths = WrittenBefore
    /\ \A i \in 1..(idx - 1) : \E c \in changes : c.op = "write" /\ c.sec = i
    /\ FilesBefore \subseteq DOMAIN fs.files
    /\ \A c \in changes : c.sec <= idx

\* C5 as stated: on the first error, at section idx, write_files stops and
\* reports, and the files the run changed are exactly the reported ones.
C5_ChangedExactlyReported ==
    report.shown => C5_StopAndReport /\ FilesChanged = FilesBefore

\* C5 amended: the files the run changed are the reported ones and, at
\* most, the file of the failing section idx itself.
C5_ChangedReportedOrFailing ==
    report.shown =>
        /\ C5_StopAndReport
        /\ FilesBefore \subseteq FilesChanged
        /\ \A c \in changes :
               (c.op = "write" /\ c.at \notin FilesBefore) => c.sec = idx

\* C5 witness: the second section failed after its file was opened, the
\* first is reported.
C5_Witness ==
    /\ report.shown
    /\ idx = 2
    /\ Len(report.paths) = 1
    /\ \E c \in changes : c.op = "write" /\ c.sec = 2 /\ c.at \notin FilesBefore

\* C6: a usage error or an input read error ends the run with its report
\* and exit code 1 before anything is parsed, listed, asked or written.
C6_EarlyErrorsNoEffect ==
    LET usage == argv.argc = 1
        nodir == argv.argc >= 2 /\ ~argv.isdir
        rderr == argv.argc >= 2 /\ argv.isdir /\ argv.read # "ok"
    IN  (usage \/ nodir \/ rderr)
            => /\ pc = "exit" /\ exitCode = 1
               /\ usage => message = "usage"
               /\ nodir => message = "no-output-dir"
               /\ rderr => message \in {"input-not-found", "read-error"}
               /\ calls = NoCalls /\ files = <<>> /\ listing = <<>>
               /\ changes = {} /\ reply.kind = "none"

\* C6 witness: the input file could not be decoded.
C6_Witness ==
    argv.read = "UnicodeDecodeError" /\ exitCode = 1

\* C7: every file and directory the tool has created or changed lies at
\* or below the output directory.
C7_ChangesBelowOutputDir ==
    \A c \in changes : IsPrefix(OutputDir, c.at)

\* C8: is_safe_path gives a boolean for every parsed path, and no
\* exception of it leaves list_files_status or main.
C8_SafetyCheckNeverRaises ==
    /\ uncaught = "none"
    /\ \A i \in 1..Len(files) :
           is_safe_path(fs, OutputDir, files[i].path) \in {"true", "false"}

\* The run was accepted and write_files came to its end without an error.
WrittenThrough == pc = "exit" /\ calls.writer /\ ~report.shown

\* After such a run the file of section i is a file below the output
\* directory, in a directory that exists, and holds the content of
\* section last.
Holds(i, last) ==
    /\ FileOf(i).err = "none"
    /\ IsPrefix(OutputDir, FileOf(i).at)
    /\ FileOf(i).at \in DOMAIN fs.files
    /\ fs.files[FileOf(i).at] = files[last].content

\* C9 as stated: after an accepted run without an error the exit code is
\* 0 and the file of every section holds the content of the last section
\* with the same path.
C9_LastSamePathWins ==
    WrittenThrough =>
        /\ exitCode = 0
        /\ \A i \in 1..Len(files) :
               Holds(i, SetMax({ j \in 1..Len(files) : files[j].path = files[i].path }))

\* C9 amended: the file of every section holds the content of the last
\* section whose path names the same file, however the path is spelled.
C9_LastSameFileWins ==
    WrittenThrough =>
        /\ exitCode = 0 /\ message = "all-written"
        /\ \A i \in 1..Len(files) :
               Holds(i, SetMax({ j \in 1..Len(files) : FileOf(j).at = FileOf(i).at }))

\* C9 witness: the sections a and c/../a, two paths that name one file,
\* were written.
C9_Witness ==
    /\ WrittenThrough
    /\ Len(files) = 2
    /\ files[1].path = <<"a">>
    /\ files[2].path = <<"c", "SL", "UP", "SL", "a">>
    /\ FileOf(1).at = FileOf(2).at

\* C10: once the prompt has returned a reply, write_files has been entered
\* exactly when the reply, trimmed and lowercased, is neither "n" nor "no";
\* the prompt is shown once, and an accepted run that ends with exit code 0
\* has written every section.
C10_AcceptUnlessNo ==
    /\ calls.prompts <= 1
    /\ reply.kind = "text" =>
           /\ calls.prompts = 1
           /\ calls.writer <=> Lower(Strip(reply.text)) \notin { <<"n">>, <<"n", "o">> }
           /\ (calls.writer /\ pc = "exit" /\ exitCode = 0)
                  => Len(written_files) = Len(files)

\* C10 witness: the unrecognised reply "n o" was taken as accept and all
\* sections were written.
C10_Witness ==
    /\ reply = [kind |-> "text", text |-> <<"n", "SP", "o">>]
    /\ pc = "exit" /\ exitCode = 0
    /\ Len(written_files) = Len(files)

====
